---- MODULE Spec2Model ----
(***************************************************************************)
(* Model of the notes backend (src/app.py): the users and notes tables,    *)
(* the JWT guard token_required, the register/login routes and the five    *)
(* note routes.                                                            *)
(*                                                                         *)
(* Time is counted in clock ticks, TicksPerSecond of them to a second; the *)
(* clock is datetime.utcnow.                                               *)
(* Strings of the JSON bodies are TLA+ strings; "" is the empty string.    *)
(* A query's .first() is modelled by the set of matching rows, which is    *)
(* empty (None) or a singleton.                                            *)
(***************************************************************************)
EXTENDS Integers, Sequences, FiniteSets, TLC

VARIABLES users, notes, user_id_seq, note_id_seq, now, issued, inflight,
          request, response

vars == <<users, notes, user_id_seq, note_id_seq, now, issued, inflight,
          request, response>>

store == <<users, notes, user_id_seq, note_id_seq>>

----------------------------------------------------------------------------
(* Bounds of the model                                                     *)

TicksPerSecond == 2
Window == 2
MaxUsers == 2
MaxNotes == 2
MaxTokens == 2

Workers == {1, 2}
Usernames == {"alice", "bob"}
Emails == {"a@x.com", "b@x.com"}
Passwords == {"pw1", "pw2"}
Salts == {"s1"}
Contents == {"C", "D"}

----------------------------------------------------------------------------
(* Program constants                                                       *)

TokenHours == 24
SecondsPerHour == 60 * 60
SECRET_KEY == "dev_secret_key"

Lifetime == TokenHours * SecondsPerHour * TicksPerSecond

(* The instants at which the model looks at the clock: a window after the  *)
(* start and a window around the expiry of the tokens issued in the first. *)
Times == (0 .. Window) \cup ((Lifetime - 1) .. (Lifetime + Window))
MaxTime == Lifetime + Window

----------------------------------------------------------------------------
(* werkzeug.security as used by register and login                         *)

(* pbkdf2 is modelled as an ideal one-way function of salt and password.   *)
pbkdf2(salt, password) == <<"digest", salt, password>>

generate_password_hash(password, salt) ==
    [method |-> "pbkdf2:sha256", salt |-> salt, digest |-> pbkdf2(salt, password)]

check_password_hash(pwhash, password) ==
    pwhash.digest = pbkdf2(pwhash.salt, password)

----------------------------------------------------------------------------
(* JSON bodies: a function from the keys present to their string values    *)

Get(data, key) == IF key \in DOMAIN data THEN data[key] ELSE ""

Missing(data, key) == Get(data, key) = ""

Body(keys, S) == UNION {[K -> S] : K \in SUBSET keys}

----------------------------------------------------------------------------
(* The Authorization header is a sequence of symbols: words, single        *)
(* spaces and tokens.  split(' ') cuts it at every space.                  *)

SP == [kind |-> "sp"]
Bearer == [kind |-> "word", text |-> "Bearer"]
Junk == [kind |-> "word", text |-> "abc.def"]

RECURSIVE split(_)
split(s) ==
    IF \A i \in 1..Len(s) : s[i] # SP THEN <<s>>
    ELSE LET i == CHOOSE j \in 1..Len(s) : s[j] = SP /\ \A k \in 1..(j-1) : s[k] # SP
         IN  <<SubSeq(s, 1, i - 1)>> \o split(SubSeq(s, i + 1, Len(s)))

(* jwt.encode: the exp datetime is serialised as whole seconds.            *)
jwt_encode(user_id, exp, key, alg) ==
    [kind |-> "jwt", user_id |-> user_id, exp |-> exp \div TicksPerSecond,
     key |-> key, alg |-> alg]

(* jwt.decode(token, key, algorithms=["HS256"]) at clock t: the payload or *)
(* the exception raised.                                                   *)
jwt_decode(token, key, t) ==
    IF Len(token) # 1 \/ token[1].kind # "jwt"
        THEN [ok |-> FALSE, error |-> "DecodeError", user_id |-> 0]
    ELSE IF token[1].alg # "HS256"
        THEN [ok |-> FALSE, error |-> "InvalidAlgorithmError", user_id |-> 0]
    ELSE IF token[1].key # key
        THEN [ok |-> FALSE, error |-> "InvalidSignatureError", user_id |-> 0]
    ELSE IF token[1].exp <= t \div TicksPerSecond
        THEN [ok |-> FALSE, error |-> "ExpiredSignatureError", user_id |-> 0]
    ELSE [ok |-> TRUE, error |-> "", user_id |-> token[1].user_id]

----------------------------------------------------------------------------
(* Tables                                                                  *)

(* User.query.filter_by(...).first() *)
UserById(id) == {u \in users : u.id = id}
UserByUsername(username) == {u \in users : u.username = username}
UserByEmail(email) == {u \in users : u.email = email}

(* The lookup by id alone. *)
NoteOf_any_owner(note_id, user_id) ==
    {n \in notes : n.id = note_id}

(* Note.query.filter_by(id=note_id, user_id=current_user.id).first() *)
NoteOf(note_id, user_id) ==
    {n \in notes : n.id = note_id /\ n.user_id = user_id}

(* The query without the filter. *)
NotesOf_everyone(user_id) == notes

(* Note.query.filter_by(user_id=current_user.id).all() *)
NotesOf(user_id) == {n \in notes : n.user_id = user_id}

(* datetime.isoformat(): seconds and the fraction of a second *)
isoformat(t) == <<t \div TicksPerSecond, ".", t % TicksPerSecond>>

to_dict(n) ==
    [id |-> n.id, title |-> n.title, content |-> n.content,
     created_at |-> isoformat(n.created_at),
     updated_at |-> isoformat(n.updated_at)]

----------------------------------------------------------------------------
(* Requests and responses                                                  *)

NoHeaders == [h \in {} |-> <<>>]
Authorization(value) == [h \in {"Authorization"} |-> value]
NoData == [k \in {} |-> ""]

Request(op, headers, note_id, data) ==
    [op |-> op, headers |-> headers, note_id |-> note_id, data |-> data]

jsonify(status, message, body, token) ==
    [status |-> status, message |-> message, body |-> body, token |-> token]

Message(status, message) == jsonify(status, message, {}, {})

(* An exception that no handler catches: Flask answers 500. *)
Unhandled == Message(500, "Internal Server Error")

----------------------------------------------------------------------------
(* token_required: the verdict of the guard on the request's headers at    *)
(* clock t: an exception, a response of its own, or the call of the        *)
(* wrapped handler with current_user.                                      *)

(* A try block that tells an expired token apart. *)
try_decode_leaky(token, t) ==
    LET data == jwt_decode(token, SECRET_KEY, t) IN
    IF data.error = "ExpiredSignatureError"
        THEN [kind |-> "respond", response |-> Message(401, "Token has expired!")]
    ELSE IF ~data.ok
        THEN [kind |-> "respond", response |-> Message(401, "Token is invalid!")]
    ELSE [kind |-> "call", current_user |-> UserById(data.user_id)]

(* The try block (app.py 88-92): any exception of jwt.decode is answered   *)
(* with the same 401; the query for the user raises nothing when no row    *)
(* matches.                                                                *)
try_decode(token, t) ==
    LET data == jwt_decode(token, SECRET_KEY, t) IN
    IF ~data.ok
        THEN [kind |-> "respond", response |-> Message(401, "Token is invalid!")]
    ELSE [kind |-> "call", current_user |-> UserById(data.user_id)]

(* A guard that lets a request without the header through. *)
token_required_lenient(headers, t) ==
    IF "Authorization" \notin DOMAIN headers
        THEN [kind |-> "call", current_user |-> UserById(1)]
    ELSE LET parts == split(headers["Authorization"]) IN
    IF Len(parts) < 2
        THEN [kind |-> "raise", response |-> Unhandled]
    ELSE IF parts[2] = <<>>
        THEN [kind |-> "respond", response |-> Message(401, "Token is missing!")]
    ELSE try_decode(parts[2], t)

token_required(headers, t) ==
    IF "Authorization" \notin DOMAIN headers
        THEN [kind |-> "respond", response |-> Message(401, "Token is missing!")]
    ELSE LET parts == split(headers["Authorization"]) IN
    IF Len(parts) < 2
        THEN [kind |-> "raise", response |-> Unhandled]
    ELSE IF parts[2] = <<>>
        THEN [kind |-> "respond", response |-> Message(401, "Token is missing!")]
    ELSE try_decode(parts[2], t)

(* The guard let the request through to the handler. *)
Called(headers, t) == token_required(headers, t).kind = "call"

(* The handler runs with a current_user that is a stored user. *)
Authenticated(headers, t) ==
    Called(headers, t) /\ token_required(headers, t).current_user # {}

CurrentUser(headers, t) ==
    CHOOSE u \in token_required(headers, t).current_user : TRUE

(* What every wrapped handler does when the guard does not call it, or     *)
(* calls it with current_user = None: its first statement formats          *)
(* current_user.username and raises.                                       *)
Rejected(op, headers, note_id, data) ==
    /\ request' = Request(op, headers, note_id, data)
    /\ response' = IF Called(headers, now) THEN Unhandled
                   ELSE token_required(headers, now).response
    /\ UNCHANGED <<store, now, issued, inflight>>

(* The storage operations of a request that can fail: the guard's lookup   *)
(* of the user, the handler's own lookup, the commit, and the reload of    *)
(* the committed row that serialising it triggers.  A handler given a      *)
(* failure is the handling of a request that reaches that operation.       *)
StorageFailures == {"guard", "query", "commit", "refresh"}

(* The guard's lookup of the user raises inside its try: the bare except   *)
(* answers (app.py 88-92).                                                 *)
LookupFailed(op, headers, note_id, data) ==
    /\ Called(headers, now)
    /\ request' = Request(op, headers, note_id, data)
    /\ response' = Message(401, "Token is invalid!")
    /\ UNCHANGED <<store, now, issued, inflight>>

----------------------------------------------------------------------------
(* Authentication routes                                                   *)

Idle == [pc |-> "idle"]

(* register, up to the existence check (app.py 102-115).  The request of   *)
(* worker w either is answered here or goes on to the commit.  The         *)
(* existence check is outside the try: its failure is not handled.         *)
register(w, data, salt, storage_error) ==
    /\ inflight[w] = Idle
    /\ IF Missing(data, "username") \/ Missing(data, "email") \/ Missing(data, "password")
       THEN /\ storage_error = "none"
            /\ request' = Request("register", NoHeaders, 0, data)
            /\ response' = Message(400, "Missing required fields")
            /\ UNCHANGED inflight
       ELSE IF storage_error = "query"
       THEN /\ request' = Request("register", NoHeaders, 0, data)
            /\ response' = Unhandled
            /\ UNCHANGED inflight
       ELSE IF UserByUsername(data["username"]) # {} \/ UserByEmail(data["email"]) # {}
       THEN /\ storage_error = "none"
            /\ request' = Request("register", NoHeaders, 0, data)
            /\ response' = Message(409, "User already exists")
            /\ UNCHANGED inflight
       ELSE /\ storage_error = "none"
            /\ inflight' = [inflight EXCEPT ![w] =
                   [pc |-> "commit", data |-> data,
                    new_user |-> [username |-> data["username"],
                                  email |-> data["email"],
                                  password |-> generate_password_hash(data["password"], salt)]]]
            /\ UNCHANGED <<request, response>>
    /\ UNCHANGED <<store, now, issued>>

(* The unique constraints of the users table (user.py 10-11). *)
UniqueViolation(new_user) ==
    \E u \in users : u.username = new_user.username \/ u.email = new_user.email

(* register, db.session.add and commit (app.py 117-125): the insert fails  *)
(* on a unique constraint or on a storage error, and is then rolled back.  *)
register_commit(w, storage_error) ==
    /\ inflight[w] # Idle
    /\ inflight' = [inflight EXCEPT ![w] = Idle]
    /\ request' = Request("register", NoHeaders, 0, inflight[w].data)
    /\ storage_error \in {"none", "commit"}
    /\ IF storage_error = "commit" \/ UniqueViolation(inflight[w].new_user)
       THEN /\ response' = Message(500, "Error creating user")
            /\ UNCHANGED store
       ELSE /\ user_id_seq < MaxUsers
            /\ users' = users \cup
                   {[id |-> user_id_seq + 1,
                     username |-> inflight[w].new_user.username,
                     email |-> inflight[w].new_user.email,
                     password |-> inflight[w].new_user.password]}
            /\ user_id_seq' = user_id_seq + 1
            /\ response' = Message(201, "User created successfully")
            /\ UNCHANGED <<notes, note_id_seq>>
    /\ UNCHANGED <<now, issued>>

(* A check of the username alone. *)
invalid_credentials_no_check(user, password) ==
    user = {}

(* not user or not check_password_hash(user.password, password) *)
invalid_credentials(user, password) ==
    user = {} \/ \A u \in user : ~check_password_hash(u.password, password)

(* An expiry beyond every time of the model. *)
token_exp_never(t) == t + 2 * Lifetime

(* utcnow() + timedelta(hours=24) *)
token_exp(t) == t + Lifetime

(* issued keeps, with every token handed out, the username it was handed   *)
(* out for and the time of the login.                                      *)
login(data) ==
    /\ request' = Request("login", NoHeaders, 0, data)
    /\ IF Missing(data, "username") \/ Missing(data, "password")
       THEN /\ response' = Message(400, "Missing username or password")
            /\ UNCHANGED issued
       ELSE LET user == UserByUsername(data["username"]) IN
            IF invalid_credentials(user, data["password"])
            THEN /\ response' = Message(401, "Invalid credentials")
                 /\ UNCHANGED issued
            ELSE LET u == CHOOSE x \in user : TRUE
                     token == jwt_encode(u.id, token_exp(now), SECRET_KEY, "HS256")
                     session == [token |-> token, at |-> now,
                                 username |-> data["username"]]
                 IN  /\ Cardinality(issued \cup {session}) <= MaxTokens
                     /\ issued' = issued \cup {session}
                     /\ response' = jsonify(200, "", {}, {token})
    /\ UNCHANGED <<store, now, inflight>>

----------------------------------------------------------------------------
(* Note routes                                                             *)

get_all_notes(headers) ==
    IF ~Authenticated(headers, now) THEN Rejected("get_all_notes", headers, 0, NoData)
    ELSE
       /\ request' = Request("get_all_notes", headers, 0, NoData)
       /\ response' = jsonify(200, "",
              {to_dict(n) : n \in NotesOf(CurrentUser(headers, now).id)}, {})
       /\ UNCHANGED <<store, now, issued, inflight>>

get_one_note(headers, note_id) ==
    IF ~Authenticated(headers, now) THEN Rejected("get_one_note", headers, note_id, NoData)
    ELSE
       /\ request' = Request("get_one_note", headers, note_id, NoData)
       /\ LET note == NoteOf(note_id, CurrentUser(headers, now).id) IN
          response' = IF note = {} THEN Message(404, "Note not found")
                      ELSE jsonify(200, "", {to_dict(n) : n \in note}, {})
       /\ UNCHANGED <<store, now, issued, inflight>>

(* The insert evaluates the column defaults of created_at and updated_at   *)
(* one after the other (note.py 12-13): the second reading of the clock,   *)
(* updated_at, is the first or one tick later.  The clock has moved on     *)
(* when the next request is handled.                                       *)
create_note(headers, data, updated_at, storage_error) ==
    IF storage_error = "guard" THEN LookupFailed("create_note", headers, 0, data)
    ELSE IF ~Authenticated(headers, now)
    THEN storage_error = "none" /\ Rejected("create_note", headers, 0, data)
    ELSE
       /\ request' = Request("create_note", headers, 0, data)
       /\ IF Missing(data, "title") \/ Missing(data, "content")
          THEN /\ storage_error = "none"
               /\ response' = Message(400, "Missing required fields")
               /\ UNCHANGED <<store, now>>
          ELSE IF storage_error = "commit"
          THEN /\ response' = Message(500, "Error creating note")
               /\ UNCHANGED <<store, now>>
          ELSE LET new_note == [id |-> note_id_seq + 1,
                                title |-> data["title"],
                                content |-> data["content"],
                                created_at |-> now,
                                updated_at |-> updated_at,
                                user_id |-> CurrentUser(headers, now).id]
               IN  /\ storage_error \in {"none", "refresh"}
                   /\ note_id_seq < MaxNotes
                   /\ updated_at \in {now, now + 1}
                   /\ updated_at + 1 \in Times
                   /\ notes' = notes \cup {new_note}
                   /\ note_id_seq' = note_id_seq + 1
                   /\ now' = updated_at + 1
                   /\ response' = IF storage_error = "refresh"
                                  THEN Message(500, "Error creating note")
                                  ELSE jsonify(201, "", {to_dict(new_note)}, {})
                   /\ UNCHANGED <<users, user_id_seq>>
       /\ UNCHANGED <<issued, inflight>>

(* The commit writes the row, and with it onupdate's updated_at, only when *)
(* an attribute has a new value (note.py 13).  After a write the clock has *)
(* moved on when the next request is handled.  The lookup of the note is   *)
(* outside the try; to_dict after the commit is inside it.                 *)
update_note(headers, note_id, data, storage_error) ==
    IF storage_error = "guard" THEN LookupFailed("update_note", headers, note_id, data)
    ELSE IF ~Authenticated(headers, now)
    THEN storage_error = "none" /\ Rejected("update_note", headers, note_id, data)
    ELSE
       /\ request' = Request("update_note", headers, note_id, data)
       /\ LET note == NoteOf(note_id, CurrentUser(headers, now).id) IN
          IF storage_error = "query"
          THEN /\ response' = Unhandled
               /\ UNCHANGED <<store, now>>
          ELSE IF note = {}
          THEN /\ storage_error = "none"
               /\ response' = Message(404, "Note not found")
               /\ UNCHANGED <<store, now>>
          ELSE IF storage_error = "commit"
          THEN /\ response' = Message(500, "Error updating note")
               /\ UNCHANGED <<store, now>>
          ELSE LET n == CHOOSE x \in note : TRUE
                   title == IF "title" \in DOMAIN data THEN data["title"] ELSE n.title
                   content == IF "content" \in DOMAIN data THEN data["content"] ELSE n.content
                   dirty == title # n.title \/ content # n.content
                   updated == [n EXCEPT !.title = title, !.content = content,
                                        !.updated_at = IF dirty THEN now ELSE @]
               IN  /\ storage_error \in {"none", "refresh"}
                   /\ dirty => now + 1 \in Times
                   /\ notes' = (notes \ {n}) \cup {updated}
                   /\ now' = IF dirty THEN now + 1 ELSE now
                   /\ response' = IF storage_error = "refresh"
                                  THEN Message(500, "Error updating note")
                                  ELSE jsonify(200, "", {to_dict(updated)}, {})
                   /\ UNCHANGED <<users, user_id_seq, note_id_seq>>
       /\ UNCHANGED <<issued, inflight>>

(* A delete of every note of the owner. *)
db_delete_of_owner(note) == {n \in notes : \A m \in note : n.user_id # m.user_id}

(* db.session.delete(note) and the commit (app.py 234-235). *)
db_delete(note) == notes \ note

delete_note(headers, note_id, storage_error) ==
    IF storage_error = "guard" THEN LookupFailed("delete_note", headers, note_id, NoData)
    ELSE IF ~Authenticated(headers, now)
    THEN storage_error = "none" /\ Rejected("delete_note", headers, note_id, NoData)
    ELSE
       /\ request' = Request("delete_note", headers, note_id, NoData)
       /\ LET note == NoteOf(note_id, CurrentUser(headers, now).id) IN
          IF storage_error = "query"
          THEN /\ response' = Unhandled
               /\ UNCHANGED store
          ELSE IF note = {}
          THEN /\ storage_error = "none"
               /\ response' = Message(404, "Note not found")
               /\ UNCHANGED store
          ELSE IF storage_error = "commit"
          THEN /\ response' = Message(500, "Error deleting note")
               /\ UNCHANGED store
          ELSE /\ storage_error = "none"
               /\ notes' = db_delete(note)
               /\ response' = Message(200, "Note deleted")
               /\ UNCHANGED <<users, user_id_seq, note_id_seq>>
       /\ UNCHANGED <<now, issued, inflight>>

----------------------------------------------------------------------------
(* Routing                                                                 *)

(* The rules app.py registers, method and path. *)
url_map ==
    {"POST /api/register", "POST /api/login",
     "GET /api/notes", "GET /api/notes/<int:note_id>", "POST /api/notes",
     "PUT /api/notes/<int:note_id>", "DELETE /api/notes/<int:note_id>"}

(* The health report of utils/health.py; app.py does not import it.  The   *)
(* figures of the process are left out of the model.                       *)
get_server_health(psutil_ok) ==
    IF psutil_ok
    THEN [status |-> "healthy",
          timestamp |-> isoformat(now),
          uptime_seconds |-> now \div TicksPerSecond,
          process |-> {"cpu_percent", "memory_percent", "threads"},
          message |-> "Server is running normally"]
    ELSE [status |-> "error",
          timestamp |-> isoformat(now),
          message |-> "Error checking server health"]

(* A request for a path of no rule: the dispatch raises NotFound before    *)
(* any handler or guard runs.                                              *)
not_found(rule, headers) ==
    /\ rule \notin url_map
    /\ request' = Request(rule, headers, 0, NoData)
    /\ response' = Message(404, "Not Found")
    /\ UNCHANGED <<store, now, issued, inflight>>

----------------------------------------------------------------------------
(* Environment                                                             *)

(* Time passes: one tick ... *)
Tick ==
    /\ now + 1 \in Times
    /\ now' = now + 1
    /\ UNCHANGED <<store, issued, inflight, request, response>>

(* ... or almost the lifetime of a token. *)
Sleep ==
    /\ now <= Window
    /\ now' = Lifetime - 1
    /\ UNCHANGED <<store, issued, inflight, request, response>>

(* A user row is removed by an administrator; the foreign key of notes     *)
(* (note.py 14) forbids it while the user has notes.                       *)
DeleteUser(u) ==
    /\ u \in users
    /\ NotesOf(u.id) = {}
    /\ users' = users \ {u}
    /\ UNCHANGED <<notes, user_id_seq, note_id_seq, now, issued, inflight,
                   request, response>>

----------------------------------------------------------------------------
(* Inputs                                                                  *)

Form(username, email, password) ==
    [username |-> username, email |-> email, password |-> password]

Alice == Form("alice", "a@x.com", "pw1")
Bob == Form("bob", "b@x.com", "pw2")

(* Registrations of every username with every email, and bodies with a    *)
(* key absent or empty.                                                    *)
Without(data, key) == [k \in DOMAIN data \ {key} |-> data[k]]

RegisterBodies ==
    {Form(u, e, "pw1") : u \in Usernames, e \in Emails}
    \cup {NoData, Without(Alice, "password"), Without(Bob, "email"),
          [Alice EXCEPT !.username = ""], [Bob EXCEPT !.password = ""]}

LoginBodies ==
    {[username |-> u, password |-> p] : u \in Usernames \cup {"carol"}, p \in Passwords}
    \cup {NoData, [username |-> "alice"], [password |-> "pw1"],
          [username |-> "", password |-> "pw1"], [username |-> "alice", password |-> ""]}

Credentials(form) == [k \in {"username", "password"} |-> form[k]]

(* Tokens a client can present: the ones login issued, and forgeries that  *)
(* lack the server's key.                                                  *)
Forged ==
    {[kind |-> "jwt", user_id |-> 1, exp |-> 2 * MaxTime, key |-> k[1], alg |-> k[2]] :
        k \in {<<"guessed_key", "HS256">>, <<"", "none">>}}

ValidHeaders == {Authorization(<<Bearer, SP, i.token>>) : i \in issued}

Headers ==
    {NoHeaders} \cup ValidHeaders
    \cup {Authorization(v) : v \in {<<Bearer>>, <<Bearer, SP>>, <<Bearer, SP, Junk>>}}
    \cup {Authorization(<<Bearer, SP, f>>) : f \in Forged}

NoteIds == 1 .. MaxNotes

----------------------------------------------------------------------------
Init ==
    /\ users = {}
    /\ notes = {}
    /\ user_id_seq = 0
    /\ note_id_seq = 0
    /\ now = 0
    /\ issued = {}
    /\ inflight = [w \in Workers |-> Idle]
    /\ request = Request("none", NoHeaders, 0, NoData)
    /\ response = Message(0, "")

(* Two users register, log in at the start and work on their notes with    *)
(* their tokens.                                                           *)
CreateBodies ==
    {[title |-> "T", content |-> c] : c \in Contents} \cup {[title |-> "T"]}

UpdateBodies ==
    {[content |-> c] : c \in Contents} \cup {[title |-> "U"]}

NextNotes ==
    \/ \E data \in {Alice, Bob} : register(1, data, "s1", "none")
    \/ register_commit(1, "none")
    \/ \E data \in {Alice, Bob} : login(Credentials(data)) /\ now = 0
    \/ \E h \in ValidHeaders : get_all_notes(h)
    \/ \E h \in ValidHeaders, id \in NoteIds : get_one_note(h, id)
    \/ \E h \in ValidHeaders, data \in CreateBodies, t \in {now, now + 1} :
           create_note(h, data, t, "none")
    \/ \E h \in ValidHeaders, id \in NoteIds, data \in UpdateBodies :
           update_note(h, id, data, "none")
    \/ \E h \in ValidHeaders, id \in NoteIds : delete_note(h, id, "none")

SpecNotes == Init /\ [][NextNotes]_vars

(* One user registers, logs in at the start and sends requests on note 1   *)
(* with every kind of Authorization header, before and after the expiry of *)
(* the token and the removal of the user.                                  *)
NextGuard ==
    \/ register(1, Alice, "s1", "none")
    \/ register_commit(1, "none")
    \/ login(Credentials(Alice)) /\ now = 0
    \/ \E h \in Headers : get_all_notes(h)
    \/ \E h \in Headers : get_one_note(h, 1)
    \/ \E h \in Headers : create_note(h, [title |-> "T", content |-> "C"], now, "none")
    \/ \E h \in Headers : update_note(h, 1, [content |-> "D"], "none")
    \/ \E h \in Headers : delete_note(h, 1, "none")
    \/ Sleep
    \/ \E u \in users : DeleteUser(u)

SpecGuard == Init /\ [][NextGuard]_vars

(* Two users log in at any time and present their tokens until after the   *)
(* expiry.                                                                 *)
NextToken ==
    \/ \E data \in {Alice, Bob} : register(1, data, "s1", "none")
    \/ register_commit(1, "none")
    \/ \E data \in {Alice, Bob} : login(Credentials(data))
    \/ \E h \in ValidHeaders : get_all_notes(h)
    \/ Tick
    \/ Sleep

SpecToken == Init /\ [][NextToken]_vars

(* One user registers, logs in and works on notes while storage           *)
(* operations fail, and the health of the server is asked for.             *)
NextStorage ==
    \/ \E f \in {"none", "query"} : register(1, Alice, "s1", f)
    \/ \E f \in {"none", "commit"} : register_commit(1, f)
    \/ login(Credentials(Alice)) /\ now = 0
    \/ \E h \in ValidHeaders : get_all_notes(h)
    \/ \E h \in ValidHeaders, data \in CreateBodies, t \in {now, now + 1},
          f \in {"none"} \cup StorageFailures :
           create_note(h, data, t, f)
    \/ \E h \in ValidHeaders, id \in NoteIds, data \in UpdateBodies,
          f \in {"none"} \cup StorageFailures :
           update_note(h, id, data, f)
    \/ \E h \in ValidHeaders, id \in NoteIds, f \in {"none"} \cup StorageFailures :
           delete_note(h, id, f)
    \/ \E h \in {NoHeaders} \cup ValidHeaders : not_found("GET /api/health", h)

SpecStorage == Init /\ [][NextStorage]_vars

(* Bodies with an empty title or content. *)
EmptyFields ==
    {[title |-> "", content |-> "C"], [title |-> "T", content |-> ""],
     [title |-> ""], [content |-> ""]}

(* One user registers, logs in at the start and works on notes with        *)
(* bodies that have every field, lack one or have an empty one.            *)
NextFields ==
    \/ register(1, Alice, "s1", "none")
    \/ register_commit(1, "none")
    \/ login(Credentials(Alice)) /\ now = 0
    \/ \E h \in ValidHeaders : get_all_notes(h)
    \/ \E h \in ValidHeaders, id \in NoteIds : get_one_note(h, id)
    \/ \E h \in ValidHeaders, data \in CreateBodies \cup EmptyFields, t \in {now, now + 1} :
           create_note(h, data, t, "none")
    \/ \E h \in ValidHeaders, id \in NoteIds, data \in UpdateBodies \cup EmptyFields :
           update_note(h, id, data, "none")
    \/ \E h \in ValidHeaders, id \in NoteIds : delete_note(h, id, "none")

SpecFields == Init /\ [][NextFields]_vars

(* Concurrent registrations and logins. *)
NextAuth ==
    \/ \E w \in Workers, data \in RegisterBodies, salt \in Salts : register(w, data, salt, "none")
    \/ \E w \in Workers, e \in {"none", "commit"} : register_commit(w, e)
    \/ \E data \in LoginBodies : login(data)

SpecAuth == Init /\ [][NextAuth]_vars

----------------------------------------------------------------------------
(* Properties                                                              *)

(* The step is the handling of request r by its route. *)
Handles(r) ==
    \E t \in {now, now + 1}, e \in {"none", "commit"} :
        \/ r.op = "get_all_notes" /\ get_all_notes(r.headers)
        \/ r.op = "get_one_note" /\ get_one_note(r.headers, r.note_id)
        \/ r.op = "create_note" /\ create_note(r.headers, r.data, t, e)
        \/ r.op = "update_note" /\ update_note(r.headers, r.note_id, r.data, e)
        \/ r.op = "delete_note" /\ delete_note(r.headers, r.note_id, e)

NoteOps == {"get_all_notes", "get_one_note", "create_note", "update_note", "delete_note"}

(* The note with this id is stored and belongs to another user than the    *)
(* one the headers authenticate.                                           *)
OthersNote(headers, note_id) ==
    /\ Authenticated(headers, now)
    /\ \E n \in notes : n.id = note_id /\ n.user_id # CurrentUser(headers, now).id

(* C1: a user with a valid token who reads, updates or deletes a note of   *)
(* another user gets 404, and no note is changed or removed.               *)
C1_OthersNoteNotFound ==
    [][LET r == request' IN
       (r.op \in {"get_one_note", "update_note", "delete_note"}
            /\ OthersNote(r.headers, r.note_id) /\ Handles(r))
       => (response'.status = 404 /\ notes' = notes)]_vars

C1_Witness ==
    /\ request.op = "update_note"
    /\ "content" \in DOMAIN request.data
    /\ OthersNote(request.headers, request.note_id)
    /\ \E n \in notes : n.id = request.note_id /\ n.content # request.data["content"]
    /\ response.status = 404

(* C2: a note request without an Authorization header is answered 401      *)
(* "Token is missing!" and reads and changes nothing.                      *)
C2_MissingHeaderRejected ==
    [][LET r == request' IN
       (r.op \in NoteOps /\ r.headers = NoHeaders /\ Handles(r))
       => (response' = Message(401, "Token is missing!") /\ store' = store)]_vars

C2_Witness ==
    /\ request.op = "delete_note"
    /\ request.headers = NoHeaders
    /\ \E n \in notes : n.id = request.note_id
    /\ response = Message(401, "Token is missing!")

(* The token of the headers verifies, and no stored user has its user_id.  *)
UnknownUser(headers) ==
    Called(headers, now) /\ token_required(headers, now).current_user = {}

(* C3: a request whose token verifies but names no stored user is answered *)
(* 401.                                                                    *)
C3_UnknownUserUnauthorized ==
    [][LET r == request' IN
       (r.op \in NoteOps /\ UnknownUser(r.headers) /\ Handles(r))
       => response'.status = 401]_vars

(* The header is present and split(' ') leaves no token: fewer than two    *)
(* parts, or an empty second part.                                         *)
NoTokenPart(headers) ==
    /\ "Authorization" \in DOMAIN headers
    /\ LET parts == split(headers["Authorization"]) IN
       Len(parts) < 2 \/ parts[2] = <<>>

(* C4: a request whose Authorization header has no token part is answered  *)
(* 401.                                                                    *)
C4_NoTokenPartUnauthorized ==
    [][LET r == request' IN
       (r.op \in NoteOps /\ NoTokenPart(r.headers) /\ Handles(r))
       => (response'.status = 401 /\ store' = store)]_vars

(* The header carries a token, and jwt.decode raises on it. *)
FailsVerification(headers) ==
    /\ "Authorization" \in DOMAIN headers
    /\ ~NoTokenPart(headers)
    /\ ~jwt_decode(split(headers["Authorization"])[2], SECRET_KEY, now).ok

Cause(headers) ==
    jwt_decode(split(headers["Authorization"])[2], SECRET_KEY, now).error

(* C5: every token that fails verification, whatever the cause, gets the   *)
(* one response 401 "Token is invalid!", and the request changes nothing.  *)
C5_UniformInvalid ==
    [][LET r == request' IN
       (r.op \in NoteOps /\ FailsVerification(r.headers) /\ Handles(r))
       => (response' = Message(401, "Token is invalid!") /\ store' = store)]_vars

(* An issued token is presented after its expiry. *)
C5_Witness ==
    /\ request.op \in NoteOps
    /\ request.headers \in ValidHeaders
    /\ FailsVerification(request.headers)
    /\ Cause(request.headers) = "ExpiredSignatureError"
    /\ response = Message(401, "Token is invalid!")

(* The headers that present the token of session i. *)
Presenting(i) == Authorization(<<Bearer, SP, i.token>>)

(* The guard passes the token of session i on to the handler as the user   *)
(* that logged in.                                                         *)
Accepted(i) ==
    /\ Called(Presenting(i), now)
    /\ \E u \in token_required(Presenting(i), now).current_user :
           u.username = i.username

(* C6 as claimed: a token issued at time t is accepted at every time       *)
(* before t + 24h and rejected from then on.                               *)
C6_ValidForExactly24h ==
    \A i \in issued : Accepted(i) <=> now < i.at + Lifetime

(* The last whole second that has begun at time t. *)
WholeSecond(t) == (t \div TicksPerSecond) * TicksPerSecond

(* C6: a token issued at time t is accepted at every time before the whole *)
(* second of t + 24h and rejected from then on, whatever else happens.     *)
C6_ValidUntilWholeSecond ==
    \A i \in issued : Accepted(i) <=> now < WholeSecond(i.at) + Lifetime

(* A token issued within a second is refused less than 24h later. *)
C6_Witness ==
    /\ request.op = "get_all_notes"
    /\ response = Message(401, "Token is invalid!")
    /\ \E i \in issued :
          /\ request.headers = Presenting(i)
          /\ i.at # WholeSecond(i.at)
          /\ now < i.at + Lifetime

(* The registration of the body is valid and reuses the username or the    *)
(* email of a stored user.                                                 *)
Reuses(data) ==
    /\ ~Missing(data, "username") /\ ~Missing(data, "email") /\ ~Missing(data, "password")
    /\ \E u \in users : u.username = data["username"] \/ u.email = data["email"]

(* The step answers the register request r of some worker. *)
RegisterAnswers(r) ==
    \E w \in Workers :
        \/ \E salt \in Salts : inflight[w] = Idle /\ register(w, r.data, salt, "none")
        \/ inflight[w] # Idle /\ inflight[w].data = r.data /\ register_commit(w, "none")

UniqueUsers(table) ==
    \A u, v \in table : (u.username = v.username \/ u.email = v.email) => u = v

(* C7: a registration that reuses a stored username or email is answered   *)
(* 409, also when it was under way while the other one committed, and the  *)
(* users table holds no username and no email twice.                       *)
C7_ReuseConflicts ==
    [][LET r == request' IN
       (r.op = "register" /\ <<request, response>>' # <<request, response>>
            /\ Reuses(r.data) /\ RegisterAnswers(r))
       => (response'.status = 409 /\ UniqueUsers(users'))]_vars

(* The password a stored user registered with (the model's digest keeps    *)
(* it). *)
RegisteredWith(u) == u.password.digest[3]

LoginMatch(data) ==
    {u \in users : u.username = Get(data, "username")
                   /\ RegisteredWith(u) = Get(data, "password")}

(* C8: login answers 400 when username or password is missing or empty,    *)
(* 200 with a token of user u when the body has u's username and the       *)
(* password u registered with, and otherwise the one 401; it changes no    *)
(* table.                                                                  *)
C8_LoginOutcome ==
    [][LET r == request' IN
       (r.op = "login" /\ login(r.data))
       => /\ store' = store
          /\ IF Missing(r.data, "username") \/ Missing(r.data, "password")
                 THEN response'.status = 400
             ELSE IF LoginMatch(r.data) # {}
                 THEN /\ response'.status = 200
                      /\ \E t \in response'.token, u \in LoginMatch(r.data) :
                             t.user_id = u.id
             ELSE response' = Message(401, "Invalid credentials")]_vars

(* A stored user logs in with another password than the registered one. *)
C8_Witness ==
    /\ request.op = "login"
    /\ \E u \in users : /\ u.username = Get(request.data, "username")
                        /\ ~Missing(request.data, "password")
                        /\ RegisteredWith(u) # request.data["password"]
    /\ response = Message(401, "Invalid credentials")

(* C9: the note that a create just answered with 201 is read back by the   *)
(* same user with the title, content, id and created_at of the create, and *)
(* with updated_at equal to created_at.                                    *)
C9_CreateThenGet ==
    [][LET r == request' IN
       (request.op = "create_note" /\ response.status = 201
            /\ r.op = "get_one_note" /\ r.headers = request.headers
            /\ r.note_id \in {b.id : b \in response.body} /\ Handles(r))
       => /\ response'.status = 200
          /\ response'.body # {}
          /\ \A b \in response'.body :
                /\ b.id = r.note_id
                /\ b.title = request.data["title"]
                /\ b.content = request.data["content"]
                /\ b.created_at \in {c.created_at : c \in response.body}
                /\ b.updated_at = b.created_at]_vars

(* C10: an owner's update with only content in the body answers 200, keeps *)
(* title, id, owner and created_at, stores the content and moves           *)
(* updated_at forward, beyond created_at.                                  *)
C10_ContentOnlyUpdate ==
    [][LET r == request' IN
       (r.op = "update_note" /\ DOMAIN r.data = {"content"}
            /\ Authenticated(r.headers, now)
            /\ NoteOf(r.note_id, CurrentUser(r.headers, now).id) # {}
            /\ update_note(r.headers, r.note_id, r.data, "none"))
       => /\ response'.status = 200
          /\ \A n \in NoteOf(r.note_id, CurrentUser(r.headers, now).id) :
                \E m \in notes' :
                    /\ m.id = n.id /\ m.title = n.title /\ m.user_id = n.user_id
                    /\ m.created_at = n.created_at
                    /\ m.content = r.data["content"]
                    /\ m.updated_at > n.updated_at
                    /\ m.updated_at > m.created_at]_vars

(* C11: the list of notes answers 200 with the notes of the user of the    *)
(* token, all of them and no others, each as stored.                       *)
C11_ListIsOwnNotes ==
    [][LET r == request' IN
       (r.op = "get_all_notes" /\ Authenticated(r.headers, now) /\ Handles(r))
       => /\ response'.status = 200
          /\ {b.id : b \in response'.body}
                 = {n.id : n \in {m \in notes : m.user_id = CurrentUser(r.headers, now).id}}
          /\ \A b \in response'.body : \E n \in notes :
                 /\ n.id = b.id /\ n.title = b.title /\ n.content = b.content
                 /\ n.user_id = CurrentUser(r.headers, now).id]_vars

(* A user with a note lists the notes while another user has one too. *)
C11_Witness ==
    /\ request.op = "get_all_notes"
    /\ response.status = 200
    /\ Authenticated(request.headers, now)
    /\ Cardinality(response.body) = 1
    /\ \E n \in notes : n.user_id # CurrentUser(request.headers, now).id

(* The step handles request r and one of its storage operations fails. *)
Fails(r) ==
    \E w \in Workers, salt \in Salts, t \in {now, now + 1}, f \in StorageFailures :
        \/ r.op = "register" /\ inflight[w] = Idle /\ register(w, r.data, salt, f)
        \/ r.op = "register" /\ inflight[w] # Idle /\ register_commit(w, f)
        \/ r.op = "create_note" /\ create_note(r.headers, r.data, t, f)
        \/ r.op = "update_note" /\ update_note(r.headers, r.note_id, r.data, f)
        \/ r.op = "delete_note" /\ delete_note(r.headers, r.note_id, f)

(* C12: when a storage operation fails during register, create, update or  *)
(* delete, the answer is 500 and the users and notes tables and their      *)
(* sequences are as they were before the request.                          *)
C12_FailureRolledBack ==
    [][Fails(request') => (response'.status = 500 /\ store' = store)]_vars

(* The ids handed out so far that no stored note has: the deleted notes.   *)
Deleted == {id \in 1 .. note_id_seq : \A n \in notes : n.id # id}

(* C13: the owner's delete of an existing note answers 200 and removes     *)
(* that note and no other; from then on the id stays absent, the owner's   *)
(* get, update and delete of it answer 404, and the list does not show it. *)
C13_DeleteRemovesExactlyThat ==
    [][LET r == request'
           own == {n \in notes : n.id = r.note_id
                                 /\ n.user_id = CurrentUser(r.headers, now).id}
       IN  /\ (r.op = "delete_note" /\ Authenticated(r.headers, now) /\ own # {}
                   /\ delete_note(r.headers, r.note_id, "none"))
              => /\ response'.status = 200
                 /\ notes' = {n \in notes : n.id # r.note_id}
                 /\ Cardinality(notes') = Cardinality(notes) - 1
           /\ \A id \in Deleted : \A n \in notes' : n.id # id
           /\ (r.op \in {"get_one_note", "update_note", "delete_note"}
                   /\ Authenticated(r.headers, now) /\ r.note_id \in Deleted
                   /\ Handles(r))
              => (response'.status = 404 /\ notes' = notes)
           /\ (r.op = "get_all_notes" /\ Authenticated(r.headers, now) /\ Handles(r))
              => \A b \in response'.body : b.id \notin Deleted]_vars

(* An owner of two notes has deleted one of them. *)
C13_Witness ==
    /\ request.op = "delete_note"
    /\ response.status = 200
    /\ request.note_id \in Deleted
    /\ \E n \in notes : n.user_id = CurrentUser(request.headers, now).id

(* C14: a GET of /api/health, with or without a token, is answered 200     *)
(* with the health report: status healthy and the fields timestamp,        *)
(* uptime_seconds, process and message.                                    *)
C14_HealthServed ==
    [][LET r == request' IN
       (r.op = "GET /api/health" /\ (request' # request \/ response' # response))
       => /\ response'.status = 200
          /\ \E b \in response'.body :
                 /\ b.status = "healthy"
                 /\ {"timestamp", "uptime_seconds", "process", "message"} \subseteq DOMAIN b
                 /\ b = get_server_health(TRUE)]_vars

(* C15: every stored note has a non-empty title, a non-empty content and   *)
(* the owner it was created with; a create with a missing or empty field   *)
(* answers 400 and stores nothing, and an update answered 200 leaves no    *)
(* field empty and the owner as it was.                                    *)
C15_NotesWellFormed ==
    [][LET r == request' IN
       /\ \A n \in notes' : n.title # "" /\ n.content # ""
       /\ \A n \in notes, m \in notes' : m.id = n.id => m.user_id = n.user_id
       /\ \A m \in notes' \ notes :
              (\A n \in notes : n.id # m.id)
              => (r.op = "create_note" /\ Authenticated(r.headers, now)
                      /\ m.user_id = CurrentUser(r.headers, now).id)
       /\ (r.op = "create_note" /\ Authenticated(r.headers, now)
               /\ (Missing(r.data, "title") \/ Missing(r.data, "content"))
               /\ Handles(r))
          => (response'.status = 400 /\ notes' = notes)]_vars

====
